---- MODULE Spec2Model ----
(***************************************************************************)
(* A model of the news monitor: the JSON cache store (JsonNewsRepository), *)
(* the orchestrator (NewsMonitoringService.monitorNews), the page fetcher  *)
(* (WebCrawlerService.fetchPageContent) and the daemon's scheduler         *)
(* (NewsMonitorDaemon).                                                    *)
(*                                                                         *)
(* The specifications share the variables:                                *)
(*   Spec        one process at a time runs one monitorNews cycle (the CLI *)
(*               `crawl` command), against the durable files;              *)
(*   SpecDaemon  one daemon process: start(), the scheduler's timer, the   *)
(*               cycles it launches (which may be in flight together) and  *)
(*               stop();                                                   *)
(*   SpecFetch   one call of fetchPageContent, request by request, and     *)
(*               SpecFetchLive, the same where every request returns;      *)
(*   SpecExtract, SpecDns, SpecMail  one call of extractNewsItems, the     *)
(*               calls of testDnsResolution over time, and one call of     *)
(*               sendNotification;                                         *)
(*   SpecRuns    Spec under the README's notification settings, with the   *)
(*               history of what the cycles announced.                     *)
(***************************************************************************)
EXTENDS Integers, Sequences, FiniteSets, TLC

\* ------------------------------------------------------------------ bounds
MaxLen == 2        \* most anchors the matched selector yields on one page
MaxTime == 1       \* the clock runs over 0 .. MaxTime
MaxCycles == 2     \* cycle slots of the daemon (cycles in flight together)
MaxFrLog == 2      \* calls of isFirstRunAfterDeployment whose result is logged
MaxRetriesBound == 2  \* crawler.maxRetries ranges over 1 .. MaxRetriesBound
MaxAgeDays == 1    \* `cleanup --days` ranges over 0 .. MaxAgeDays
MaxElements == 3   \* most elements one selector matches (extractor alone)
MaxDnsTime == 6    \* the DNS cache's clock runs over 0 .. MaxDnsTime, minutes
MaxRecipients == 3 \* most addresses in notification.toEmails

Cycles == 1 .. MaxCycles

\* ------------------------------------------------------------------ items
\* The anchors a page can hold: (title, link) after link resolution, and the
\* text of the date element found near the anchor ("none": undefined).
Anchors ==
    { [title |-> "Alpha", link |-> "/a", date |-> "none"],
      [title |-> "Gamma", link |-> "/b", date |-> "none"],
      [title |-> "New", link |-> "/c", date |-> "none"] }

RECURSIVE SeqsUpTo(_, _)
SeqsUpTo(S, n) ==
    IF n = 0 THEN { <<>> }
    ELSE LET shorter == SeqsUpTo(S, n - 1)
         IN  shorter \cup { Append(s, x) : s \in shorter, x \in S }

\* What the first matching selector yields on a page, in document order.
Pages == SeqsUpTo(Anchors, MaxLen)

\* NewsItem.create: the id is the MD5 digest of title + link, in hex.  The
\* digest is modelled as collision free over the strings of the model.
md5(content) == "md5(" \o content \o ")"

DateAt(t) == [kind |-> "Date", t |-> t]

NewsItemCreateIdFromTime(title, link, date, clock) ==
    [id |-> md5(title \o link \o ToString(clock)), title |-> title,
     link |-> link, date |-> date, crawledAt |-> DateAt(clock)]

NewsItemCreate(title, link, date, clock) ==
    [id |-> md5(title \o link), title |-> title, link |-> link,
     date |-> date, crawledAt |-> DateAt(clock)]

\* ------------------------------------------------------------- JSON, files
\* JSON.stringify renders a Date as its ISO-8601 string; JSON.parse gives the
\* string back, and NewsItem.fromDict stores it as it is.
toJSONValue(item) ==
    [item EXCEPT !.crawledAt = [kind |-> "string", t |-> item.crawledAt.t]]

\* NewsItem.fromDict: new NewsItem(data.id, data.title, data.link, ...,
\* data.crawledAt); crawledAt is taken as it is, a string after JSON.parse.
fromDict(d) ==
    [id |-> d.id, title |-> d.title, link |-> d.link, date |-> d.date,
     crawledAt |-> d.crawledAt]

\* The object save() builds: data[item.id] = item.toDict().  A key keeps the
\* place of its first assignment and the value of its last.
RECURSIVE BuildData(_, _)
BuildData(items, data) ==
    IF items = <<>> THEN data
    ELSE LET it == toJSONValue(Head(items))
             at == { i \in 1 .. Len(data) : data[i].id = it.id }
         IN  IF at = {}
             THEN BuildData(Tail(items), Append(data, it))
             ELSE BuildData(Tail(items),
                            [i \in 1 .. Len(data) |->
                                IF i \in at THEN it ELSE data[i]])

Absent == [kind |-> "absent", data |-> <<>>]
Partial == [kind |-> "partial", data |-> <<>>]   \* a truncated write
Corrupt == [kind |-> "corrupt", data |-> <<>>]   \* damaged from outside
JsonFile(data) == [kind |-> "json", data |-> data]

Exists(file) == file.kind # "absent"

\* JsonNewsRepository.findAll: the Map of id -> item, in the file's order;
\* an absent file and one that does not parse both give the empty Map.
findAllLoadsNothing(live) == <<>>

findAll(live) ==
    IF ~Exists(live) THEN <<>>
    ELSE IF live.kind = "json"
         THEN [i \in 1 .. Len(live.data) |-> fromDict(live.data[i])]
         ELSE <<>>

MapHasNothing(map, id) == FALSE

MapHas(map, id) == \E i \in 1 .. Len(map) : map[i].id = id

\* JsonNewsRepository.findNewItems: the loop that pushes every item of
\* currentItems whose id the cached Map does not have.
RECURSIVE findNewLoop(_, _, _)
findNewLoop(currentItems, cachedItems, newItems) ==
    IF currentItems = <<>> THEN newItems
    ELSE findNewLoop(Tail(currentItems), cachedItems,
                     IF ~MapHas(cachedItems, Head(currentItems).id)
                     THEN Append(newItems, Head(currentItems))
                     ELSE newItems)

findNewItemsSkipsCheck(live, currentItems) == currentItems

findNewItems(live, currentItems) ==
    findNewLoop(currentItems, findAll(live), <<>>)

\* ---------------------------------------------------------------- extractor
\* extractItemFromElement: an anchor whose title has fewer than 5 characters
\* gives no item.
MinTitleLength == 5

RECURSIVE extractLoop(_, _, _)
extractLoop(anchors, clock, newsItems) ==
    IF anchors = <<>> THEN newsItems
    ELSE LET a == Head(anchors)
         IN  extractLoop(Tail(anchors), clock,
                 IF Len(a.title) < MinTitleLength THEN newsItems
                 ELSE Append(newsItems,
                             NewsItemCreate(a.title, a.link, a.date,
                                            clock)))

\* The Map keyed by id that keeps the first item of each id, as a list.
RECURSIVE uniqueItemsKeepLast(_, _)
uniqueItemsKeepLast(newsItems, unique) ==
    IF newsItems = <<>> THEN unique
    ELSE uniqueItemsKeepLast(
             Tail(newsItems),
             IF MapHas(unique, Head(newsItems).id)
             THEN [i \in 1 .. Len(unique) |->
                     IF unique[i].id = Head(newsItems).id
                     THEN Head(newsItems) ELSE unique[i]]
             ELSE Append(unique, Head(newsItems)))

RECURSIVE uniqueItems(_, _)
uniqueItems(newsItems, unique) ==
    IF newsItems = <<>> THEN unique
    ELSE uniqueItems(Tail(newsItems),
                     IF MapHas(unique, Head(newsItems).id) THEN unique
                     ELSE Append(unique, Head(newsItems)))

extractNewsItems(anchors, clock) ==
    uniqueItems(extractLoop(anchors, clock, <<>>), <<>>)

\* The selector strategies, in the order of the list.
Selectors ==
    << "a[href*=Pages/Detail.aspx]", "a[href*=topic]", ".news-item a",
       ".topic-item a", "li a[href*=Detail.aspx]", "div a[href*=Detail.aspx]" >>

\* for (const selector of selectors) { if (elements.length > 0) { ...; break } }
afterSelectorNoBreak(elements, i) ==
    IF i < Len(Selectors) THEN "select" ELSE "dedupe"

afterSelector(elements, i) ==
    IF Len(elements) > 0 THEN "dedupe"
    ELSE IF i < Len(Selectors) THEN "select"
    ELSE "dedupe"

\* The elements a selector can match: the anchors, and an anchor that
\* repeats a title and a link next to another date.
ExtractAnchors ==
    Anchors \cup { [title |-> "Alpha", link |-> "/a", date |-> "1 May"] }

ExtractPages == SeqsUpTo(ExtractAnchors, MaxElements)

NoExtract ==
    [epc |-> "select", selector |-> 1, queried |-> <<>>, newsItems |-> <<>>,
     ret |-> <<>>]

\* ------------------------------------------------------------------- state
VARIABLES
    cacheFile,      \* news_cache.json: Absent, JsonFile(data), Partial, Corrupt
    tempFile,       \* news_cache.tmp
    markerFile,     \* first_run_complete exists
    repoVariant,    \* which JsonNewsRepository is wired: "marker" or "env"
    envFirstRun,    \* process.env FIRST_RUN_AFTER_DEPLOYMENT
    notification,   \* appConfig.notification: enabled, deploymentNotification
    now,            \* the clock
    pc,             \* per cycle: where monitorNews stands
    isFirstRun,     \* per cycle: monitorNews' local isFirstRun
    result,         \* per cycle: the CrawlResult
    inSync,         \* the cycle running a stretch with no I/O await, or 0
    g,              \* per cycle: what the cycle has done so far (history)
    frLog,          \* results of isFirstRunAfterDeployment since the marker
                    \* was last absent at a call (history, first MaxFrLog)
    dpc,            \* the daemon: where start() stands
    schedulerInterval,  \* the daemon's setInterval timer is armed
    pidFile,        \* "absent", "self", "other" (a live process), "stale"
    healthServer,   \* the health check server listens
    stopped,        \* stop() has run (history)
    stopCommand,    \* the `stop` command: "none", "done", or "cycleAfter"
                    \* once the daemon began a cycle after it (history)
    schedule,       \* appConfig.schedule and whether config.scheduler.rules
                    \* holds a valid rule
    fetch,          \* fetchPageContent: its locals and its requests so far
    cleanup,        \* the last `cleanup` command: what it found and did
    extract,        \* extractNewsItems: its loop over the selectors
    resolver,       \* the crawler's DNS cache, its clock, its last lookup
    mail,           \* sendNotification: its loop over the recipients
    lastCommand,    \* the last `test` or `stats` command and its result
    told            \* what the cycles that returned had found new (history)

storeVars == <<cacheFile, tempFile, markerFile>>
envVars == <<repoVariant, envFirstRun, notification>>
cycleVars == <<pc, isFirstRun, result, inSync, g, frLog>>
daemonVars == <<dpc, schedulerInterval, pidFile, healthServer, stopped,
                stopCommand, schedule>>
serviceVars == <<extract, resolver, mail, lastCommand>>
otherVars == <<daemonVars, fetch, cleanup, serviceVars>>
vars == <<storeVars, envVars, now, cycleVars, daemonVars, fetch, cleanup,
          serviceVars, told>>

EnvValues == { "unset", "true", "false" }

NoResult ==
    [success |-> FALSE, items |-> <<>>, newItems |-> <<>>, errors |-> <<>>]

NoHistory ==
    [liveAtStart |-> Absent, ops |-> <<>>, liveAtFind |-> Absent,
     liveAtSave |-> Absent, saveRet |-> "none", notif |-> "none",
     fetched |-> "none", frRet |-> "none", frOverlap |-> {},
     recipients |-> "none", notifOk |-> "none"]

\* ------------------------------------------------- isFirstRunAfterDeployment
\* repositories.ts: the environment variable decides, nothing is written.
isFirstRunEnv(value) ==
    (IF value = "unset" THEN "false" ELSE value) \in { "true", "1", "yes" }

\* config.ts: fs.promises.access succeeded, the marker exists: not first run.
markerSaysFirstRun(marker) == ~marker

\* config.ts: fs.promises.writeFile of the marker; a failure is only logged.
writeMarker(marker) == { TRUE, marker }

LogFirstRun(value) ==
    frLog' = IF Len(frLog) < MaxFrLog THEN Append(frLog, value) ELSE frLog

\* --------------------------------------------------------------------- save
\* fs.writeFileSync(tempCacheFile, JSON.stringify(data)): done, refused
\* before anything was written, or broken off part way.
writeTempDirectlyToLive(temp, live, data) ==
    { [ok |-> TRUE, temp |-> temp, live |-> JsonFile(data)],
      [ok |-> FALSE, temp |-> temp, live |-> live],
      [ok |-> FALSE, temp |-> temp, live |-> Partial] }

writeTemp(temp, live, data) ==
    { [ok |-> TRUE, temp |-> JsonFile(data), live |-> live],
      [ok |-> FALSE, temp |-> temp, live |-> live],
      [ok |-> FALSE, temp |-> Partial, live |-> live] }

\* fs.renameSync(tempCacheFile, cacheFile): atomic, or refused.
renameTemp(temp, live) ==
    { [ok |-> FALSE, temp |-> temp, live |-> live] } \cup
    IF Exists(temp)
    THEN { [ok |-> TRUE, temp |-> Absent, live |-> temp] }
    ELSE {}

\* The catch block: if (fs.existsSync(temp)) fs.unlinkSync(temp).  unlinkSync
\* can throw, and nothing catches that.
cleanupTemp(temp) ==
    IF Exists(temp)
    THEN { [threw |-> FALSE, temp |-> Absent], [threw |-> TRUE, temp |-> temp] }
    ELSE { [threw |-> FALSE, temp |-> temp] }

\* save(items) as a whole, for a caller that runs it in one stretch: where
\* the files end up and what save returns ("threw": the catch block threw).
saveCatch(temp, live) ==
    { [temp |-> u.temp, live |-> live,
       ret |-> IF u.threw THEN "threw" ELSE "false"] : u \in cleanupTemp(temp) }

saveOutcomes(temp, live, items) ==
    UNION { IF ~w.ok THEN saveCatch(w.temp, w.live)
            ELSE UNION { IF r.ok
                         THEN { [temp |-> r.temp, live |-> r.live,
                                 ret |-> "true"] }
                         ELSE saveCatch(r.temp, r.live) :
                         r \in renameTemp(w.temp, w.live) } :
            w \in writeTemp(temp, live, BuildData(items, <<>>)) }

\* -------------------------------------------------------- cleanupOldEntries
\* item.crawledAt > cutoffDate, with cutoffDate a Date.  A Date compares by
\* its time.  A string is converted to a number, and an ISO-8601 string
\* converts to NaN, with which every comparison is false.
crawledAfter(crawledAt, cutoff) ==
    IF crawledAt.kind = "Date" THEN crawledAt.t > cutoff ELSE FALSE

\* new Date(Date.now() - maxAgeDays * 24 * 60 * 60 * 1000), in days
cutoffDate(clock, maxAgeDays) == clock - maxAgeDays

\* The entries cleanupOldEntries keeps.
filteredCache(cache, cutoff) ==
    SelectSeq(cache, LAMBDA item : crawledAfter(item.crawledAt, cutoff))

NoCleanup ==
    [ran |-> FALSE, before |-> Absent, maxAgeDays |-> 0, at |-> 0,
     removedCount |-> 0, saveRet |-> "none"]

\* No `test` or `stats` command has run since the last other command.
NoCommand ==
    [name |-> "none", crawler |-> FALSE, notification |-> FALSE,
     totalItems |-> 0, shown |-> FALSE]

\* The `cleanup` command: cleanupOldEntries(maxAgeDays), run while no crawl
\* is running.
CleanupOldEntries ==
    /\ \A c \in Cycles : pc[c] = "idle"
    /\ \E maxAgeDays \in 0 .. MaxAgeDays :
         LET cache == findAll(cacheFile)
             kept == filteredCache(cache, cutoffDate(now, maxAgeDays))
             removedCount == Len(cache) - Len(kept)
             done == [ran |-> TRUE, before |-> cacheFile,
                      maxAgeDays |-> maxAgeDays, at |-> now,
                      removedCount |-> removedCount, saveRet |-> "none"]
         IN  IF removedCount > 0
             THEN \E o \in saveOutcomes(tempFile, cacheFile, kept) :
                    /\ tempFile' = o.temp
                    /\ cacheFile' = o.live
                    /\ cleanup' = [done EXCEPT !.saveRet = o.ret]
             ELSE /\ cleanup' = done
                  /\ UNCHANGED <<cacheFile, tempFile>>
    /\ lastCommand' = NoCommand
    /\ told' = [told EXCEPT !.ids = {}]
    /\ UNCHANGED <<markerFile, envVars, now, cycleVars, daemonVars, fetch,
                   extract, resolver, mail>>

\* -------------------------------------------------------------------- crawl
\* WebCrawlerService.crawl, given what fetchPageContent did: returned '',
\* threw, or returned the page.
crawlTakesEmptyForAPage(fetched, anchors, clock) ==
    IF fetched = "threw"
    THEN [NoResult EXCEPT !.errors = << "Crawling error" >>]
    ELSE [NoResult EXCEPT !.success = TRUE,
                          !.items = extractNewsItems(anchors, clock)]

crawl(fetched, anchors, clock) ==
    IF fetched = "empty"
    THEN [NoResult EXCEPT !.errors = << "Failed to fetch page content" >>]
    ELSE IF fetched = "threw"
    THEN [NoResult EXCEPT !.errors = << "Crawling error" >>]
    ELSE [NoResult EXCEPT !.success = TRUE,
                          !.items = extractNewsItems(anchors, clock)]

FetchOutcomes == { "empty", "threw", "html" }

\* -------------------------------------------------------------- monitorNews
\* if (!result.success) return result
afterCrawlNoEarlyReturn(res) == "find"

afterCrawl(res) == IF ~res.success THEN "done" ELSE "find"

\* if (result.items.length > 0) await this.newsRepository.save(result.items)
afterFindSaveOnlyNew(res) ==
    IF Len(res.newItems) > 0 THEN "save_write" ELSE "decide"

afterFind(res) == IF Len(res.items) > 0 THEN "save_write" ELSE "decide"

\* if (newItems.length > 0 && this.notificationService) ... sendNotification
wantsNotificationAlways(newItems) == TRUE

wantsNotification(newItems) == Len(newItems) > 0

isDevNotification(firstRun) == firstRun

\* EmailNotificationService.sendNotification: nothing is sent when email is
\* disabled; the development address alone if isDevNotification and
\* deploymentNotification.enabled; else config.toEmails.
NotificationConfigs == [enabled : BOOLEAN, deploymentNotification : BOOLEAN]

recipientsAlwaysAll(isDev, config) ==
    IF ~config.enabled THEN "disabled" ELSE "all"

recipients(isDev, config) ==
    IF ~config.enabled THEN "disabled"
    ELSE IF isDev /\ config.deploymentNotification THEN "dev"
    ELSE "all"

\* The outcomes sendNotification can report: failure when disabled, else
\* success if a recipient was reached and failure if none was.
notificationResults(to) == IF to = "disabled" THEN { FALSE } ELSE BOOLEAN

\* if (!notificationResult.success) result.errors.push(...)
afterNotificationFailsCycle(res, ok) ==
    IF ok THEN res
    ELSE [res EXCEPT !.success = FALSE,
                     !.errors = Append(@, "Notification sending failed")]

afterNotification(res, ok) ==
    IF ok THEN res
    ELSE [res EXCEPT !.errors = Append(@, "Notification sending failed")]

Idle(c) == pc[c] = "idle"
Free(c) == inSync \in { 0, c }

\* monitorNews is entered.  A cycle holds the thread from its entry, and from
\* each resumption, up to its next await on I/O or its return.
BeginCycle(c) ==
    /\ inSync' = c
    /\ pc' = [pc EXCEPT ![c] = "firstRun"]
    /\ isFirstRun' = [isFirstRun EXCEPT ![c] = FALSE]
    /\ result' = [result EXCEPT ![c] = NoResult]
    /\ g' = [g EXCEPT ![c] = [NoHistory EXCEPT !.liveAtStart = cacheFile]]

\* await this.newsRepository.isFirstRunAfterDeployment(), up to its first
\* await on the file system (marker variant) or whole (environment variant).
\* The calls of isFirstRunAfterDeployment that are open (awaiting the file
\* system) when cycle c's call is made: the calls c's call overlaps.
OpenFirstRunCalls(c) == { d \in Cycles \ { c } : pc[d] = "firstRunWrite" }

NoteFirstRun(c, ret, open) ==
    g' = [d \in Cycles |->
            IF d = c THEN [g[d] EXCEPT !.frRet = ret, !.frOverlap = @ \cup open]
            ELSE IF d \in open THEN [g[d] EXCEPT !.frOverlap = @ \cup { c }]
            ELSE g[d]]

FirstRunCheck(c) ==
    /\ pc[c] = "firstRun" /\ Free(c)
    /\ IF repoVariant = "env"
       THEN /\ isFirstRun' = [isFirstRun EXCEPT ![c] = isFirstRunEnv(envFirstRun)]
            /\ LogFirstRun(isFirstRunEnv(envFirstRun))
            /\ NoteFirstRun(c, IF isFirstRunEnv(envFirstRun)
                               THEN "true" ELSE "false", {})
            /\ pc' = [pc EXCEPT ![c] = "crawl"]
       ELSE IF markerSaysFirstRun(markerFile)
            THEN /\ pc' = [pc EXCEPT ![c] = "firstRunWrite"]
                 /\ NoteFirstRun(c, "none", OpenFirstRunCalls(c))
                 /\ UNCHANGED <<isFirstRun, frLog>>
            ELSE /\ isFirstRun' = [isFirstRun EXCEPT ![c] = FALSE]
                 /\ LogFirstRun(FALSE)
                 /\ NoteFirstRun(c, "false", OpenFirstRunCalls(c))
                 /\ pc' = [pc EXCEPT ![c] = "crawl"]
    /\ inSync' = 0
    /\ UNCHANGED <<told, otherVars, storeVars, envVars, now, result>>

\* The marker variant's writeFile, then return true.
FirstRunWrite(c) ==
    /\ pc[c] = "firstRunWrite" /\ Free(c)
    /\ \E m \in writeMarker(markerFile) : markerFile' = m
    /\ isFirstRun' = [isFirstRun EXCEPT ![c] = TRUE]
    /\ LogFirstRun(TRUE)
    /\ NoteFirstRun(c, "true", {})
    /\ pc' = [pc EXCEPT ![c] = "crawl"]
    /\ UNCHANGED <<told, otherVars, cacheFile, tempFile, envVars, now, result, inSync>>

\* const result = await this.crawlerService.crawl(), and the early return.
\* From here to the next I/O await the cycle runs without interruption.
Crawl(c, pages) ==
    /\ pc[c] = "crawl" /\ Free(c)
    /\ \E fetched \in FetchOutcomes, anchors \in pages :
         LET res == crawl(fetched, anchors, now)
         IN  /\ result' = [result EXCEPT ![c] = res]
             /\ g' = [g EXCEPT ![c].fetched = fetched]
             /\ pc' = [pc EXCEPT ![c] = afterCrawl(res)]
             /\ inSync' = c
    /\ UNCHANGED <<told, otherVars, storeVars, envVars, now, isFirstRun, frLog>>

\* const newItems = await findNewItems(result.items); result.newItems = ...
FindNew(c) ==
    /\ pc[c] = "find" /\ Free(c)
    /\ result' = [result EXCEPT
                    ![c].newItems = findNewItems(cacheFile, result[c].items)]
    /\ g' = [g EXCEPT ![c].ops = Append(@, "findNewItems"),
                      ![c].liveAtFind = cacheFile]
    /\ pc' = [pc EXCEPT ![c] = afterFind(result'[c])]
    /\ UNCHANGED <<told, otherVars, storeVars, envVars, now, isFirstRun, inSync, frLog>>

\* save(result.items): build the data, write the temporary file.
SaveWrite(c) ==
    /\ pc[c] = "save_write" /\ Free(c)
    /\ \E o \in writeTemp(tempFile, cacheFile,
                          BuildData(result[c].items, <<>>)) :
         /\ tempFile' = o.temp
         /\ cacheFile' = o.live
         /\ pc' = [pc EXCEPT ![c] = IF o.ok THEN "save_rename" ELSE "save_catch"]
    /\ g' = [g EXCEPT ![c].ops = Append(@, "save"),
                      ![c].liveAtSave = cacheFile]
    /\ UNCHANGED <<told, otherVars, markerFile, envVars, now, isFirstRun, result, inSync, frLog>>

\* save: rename the temporary file over the live one, return true.
SaveRename(c) ==
    /\ pc[c] = "save_rename" /\ Free(c)
    /\ \E o \in renameTemp(tempFile, cacheFile) :
         /\ tempFile' = o.temp
         /\ cacheFile' = o.live
         /\ pc' = [pc EXCEPT ![c] = IF o.ok THEN "decide" ELSE "save_catch"]
         /\ g' = [g EXCEPT ![c].saveRet = IF o.ok THEN "true" ELSE @]
    /\ UNCHANGED <<told, otherVars, markerFile, envVars, now, isFirstRun, result, inSync, frLog>>

\* save: the catch block; it returns false, or its unlinkSync throws and the
\* exception leaves save and monitorNews.
SaveCatch(c) ==
    /\ pc[c] = "save_catch" /\ Free(c)
    /\ \E o \in cleanupTemp(tempFile) :
         /\ tempFile' = o.temp
         /\ pc' = [pc EXCEPT ![c] = IF o.threw THEN "threw" ELSE "decide"]
         /\ g' = [g EXCEPT ![c].saveRet = IF o.threw THEN "threw" ELSE "false"]
    /\ UNCHANGED <<told, otherVars, cacheFile, markerFile, envVars, now, isFirstRun, result,
                   inSync, frLog>>

\* The notification test: without new items monitorNews returns the result.
Decide(c) ==
    /\ pc[c] = "decide" /\ Free(c)
    /\ pc' = [pc EXCEPT ![c] = IF wantsNotification(result[c].newItems)
                               THEN "notify" ELSE "done"]
    /\ g' = [g EXCEPT
                ![c].notif =
                   IF ~wantsNotification(result[c].newItems) THEN "none"
                   ELSE IF isDevNotification(isFirstRun[c]) THEN "dev"
                   ELSE "all",
                ![c].recipients =
                   IF ~wantsNotification(result[c].newItems) THEN "none"
                   ELSE recipients(isDevNotification(isFirstRun[c]),
                                   notification)]
    /\ inSync' = IF wantsNotification(result[c].newItems) THEN 0 ELSE c
    /\ UNCHANGED <<told, otherVars, storeVars, envVars, now, isFirstRun, result, frLog>>

\* await sendNotification(...) settles; a failure is pushed on result.errors.
Notify(c) ==
    /\ pc[c] = "notify" /\ Free(c)
    /\ \E sent \in notificationResults(g[c].recipients) :
         /\ result' = [result EXCEPT ![c] = afterNotification(@, sent)]
         /\ g' = [g EXCEPT ![c].notifOk = IF sent THEN "ok" ELSE "failed"]
    /\ pc' = [pc EXCEPT ![c] = "done"]
    /\ inSync' = c
    /\ UNCHANGED <<told, otherVars, storeVars, envVars, now, isFirstRun, frLog>>

\* What is known of the cycles that returned: the ids they called
\* sendNotification with since the last `cleanup`, and whether one of them
\* has done so since the deployment (the start, or the marker's removal).
\* The history is kept only where it is watched (SpecRuns).
NoTold == [watched |-> FALSE, ids |-> {}, baseline |-> FALSE]

Watching == [NoTold EXCEPT !.watched = TRUE]

NewIds(res) == { res.newItems[i].id : i \in 1 .. Len(res.newItems) }

noteReturn(c) ==
    IF ~told.watched \/ g[c].notif = "none" THEN told
    ELSE [told EXCEPT !.ids = @ \cup NewIds(result[c]), !.baseline = TRUE]

\* The caller has the result (or the exception); the slot is free again.
Return(c) ==
    /\ pc[c] \in { "done", "threw" }
    /\ pc' = [pc EXCEPT ![c] = "idle"]
    /\ isFirstRun' = [isFirstRun EXCEPT ![c] = FALSE]
    /\ result' = [result EXCEPT ![c] = NoResult]
    /\ g' = [g EXCEPT ![c] = NoHistory]
    /\ inSync' = 0
    /\ told' = noteReturn(c)
    /\ UNCHANGED <<otherVars, storeVars, envVars, now, frLog>>

\* resetFirstRunState: the marker is removed from outside a cycle.
ResetFirstRunState ==
    /\ markerFile
    /\ markerFile' = FALSE
    /\ frLog' = <<>>
    /\ told' = [told EXCEPT !.baseline = FALSE]
    /\ UNCHANGED <<otherVars, cacheFile, tempFile, envVars, now, pc, isFirstRun, result,
                   inSync, g>>

\* Time passes between two runs.
AdvanceClock ==
    /\ now < MaxTime
    /\ \A c \in Cycles : Idle(c)
    /\ now' = now + 1
    /\ UNCHANGED <<told, otherVars, storeVars, envVars, cycleVars>>

\* ------------------------------------------------------------------ daemon
NoSchedule == [enabled |-> FALSE, rules |-> FALSE, startImmediately |-> FALSE]

DaemonNotStarted ==
    /\ dpc = "new"
    /\ schedulerInterval = FALSE
    /\ pidFile = "absent"
    /\ healthServer = FALSE
    /\ stopped = FALSE
    /\ stopCommand = "none"

\* ----------------------------------------------------------------- fetcher
NoFetch ==
    [fpc |-> "idle", maxRetries |-> 1, fallback |-> FALSE, targetIp |-> "unset",
     targetHost |-> "hpa", userAgents |-> 1, dnsSuccess |-> FALSE,
     urls |-> <<>>, urlIdx |-> 0, attempt |-> 0, reqs |-> <<>>, heads |-> 0,
     sleeps |-> <<>>, ret |-> "none"]

FetchConfigs ==
    { [NoFetch EXCEPT !.maxRetries = m, !.fallback = fb, !.targetIp = ti,
                      !.targetHost = th, !.userAgents = ua] :
        m \in 1 .. MaxRetriesBound, fb \in BOOLEAN, ti \in { "unset", "set" },
        th \in { "hpa", "other" }, ua \in { 0, 1 } }

\* The configured target URL, and targetUrl.replace('www.hpa.gov.tw', ip):
\* the second holds an IP literal only if the target names that host.
TargetUrl == [variant |-> "target", literal |-> FALSE]
IpUrl(f) == [variant |-> "ip", literal |-> f.targetHost = "hpa"]

\* const urlsToTry = [targetUrl]; if (!dnsSuccess && DNS_FALLBACK_ENABLED
\* === 'true') urlsToTry.push(ipUrl)
urlsToTryIpInstead(dnsSuccess, f) ==
    IF ~dnsSuccess /\ f.fallback THEN << IpUrl(f), TargetUrl >>
    ELSE IF ~dnsSuccess THEN << IpUrl(f) >>
    ELSE << TargetUrl >>

urlsToTry(dnsSuccess, f) ==
    IF ~dnsSuccess /\ f.fallback THEN << TargetUrl, IpUrl(f) >>
    ELSE << TargetUrl >>

\* url.includes('210.241.78.32') || url.includes(process.env.TARGET_IP || '')
\* and every string includes ''.
hostHeader(url, f) == url.literal \/ f.targetIp = "unset"

\* if (response.data && response.data.length > 1000) return response.data
ContentThreshold == 1000

validContentInclusive(len) == len >= ContentThreshold

validContent(len) == len > ContentThreshold

\* What httpClient.get does: it throws (error, timeout, status not 2xx) or
\* gives a response whose data has some length.
ContentLengths == { 0, ContentThreshold, ContentThreshold + 1 }
AxiosResponses ==
    { [kind |-> "error", len |-> 0] } \cup
    { [kind |-> "data", len |-> l] : l \in ContentLengths }

\* fetchWithNativeHttps always resolves: with the body, or '' on an error,
\* a timeout or a status other than 200.
NativeResults == ContentLengths

\* for (let attempt = 0; attempt < this.config.maxRetries; attempt++)
attemptsLeftOffByOne(attempt, maxRetries) == attempt <= maxRetries

attemptsLeft(attempt, maxRetries) == attempt < maxRetries

loopOrNativeOneMore(attempt, maxRetries) ==
    IF attempt <= maxRetries THEN "axios" ELSE "native"

loopOrNative(attempt, maxRetries) ==
    IF attemptsLeft(attempt, maxRetries) THEN "axios" ELSE "native"

RECURSIVE Pow2(_)
Pow2(n) == IF n = 0 THEN 1 ELSE 2 * Pow2(n - 1)

\* const backoffTime = Math.pow(2, attempt) * 1000, in seconds
backoffTime(attempt) == Pow2(attempt)

\* testDnsResolution, getRandomUserAgent (which throws without user agents)
\* and the list of URLs to try.
FetchBegin ==
    /\ fetch.fpc = "idle"
    /\ \E dns \in BOOLEAN :
         fetch' =
           IF fetch.userAgents = 0
           THEN [fetch EXCEPT !.dnsSuccess = dns, !.fpc = "done",
                              !.ret = "threw"]
           ELSE [fetch EXCEPT !.dnsSuccess = dns,
                              !.urls = urlsToTry(dns, fetch),
                              !.urlIdx = 1, !.attempt = 0,
                              !.fpc = loopOrNative(0, fetch.maxRetries)]
    /\ UNCHANGED <<told, storeVars, envVars, now, cycleVars, daemonVars, cleanup,
                   serviceVars>>

\* One pass of the retry loop: httpClient.get, then the content test or the
\* catch block (diagnostics on the first attempt, backoff before a retry).
AxiosAttempt ==
    /\ fetch.fpc = "axios"
    /\ \E response \in AxiosResponses :
         LET url == fetch.urls[fetch.urlIdx]
             req == [via |-> "axios", url |-> url.variant,
                     host |-> hostHeader(url, fetch), len |-> response.len]
             out == IF response.kind = "error" THEN "error"
                    ELSE IF validContent(response.len) THEN "ok"
                    ELSE "short"
             next == fetch.attempt + 1
         IN  fetch' =
               IF out = "ok"
               THEN [fetch EXCEPT !.reqs = Append(@, req), !.fpc = "done",
                                  !.ret = "html"]
               ELSE IF out = "short"
               THEN [fetch EXCEPT !.reqs = Append(@, req), !.attempt = next,
                                  !.fpc = loopOrNative(next, fetch.maxRetries)]
               ELSE [fetch EXCEPT
                       !.reqs = Append(@, req),
                       !.heads = IF fetch.attempt = 0 THEN @ + 1 ELSE @,
                       !.sleeps = IF fetch.attempt < fetch.maxRetries - 1
                                  THEN Append(@, backoffTime(fetch.attempt))
                                  ELSE @,
                       !.attempt = next,
                       !.fpc = loopOrNative(next, fetch.maxRetries)]
    /\ UNCHANGED <<told, storeVars, envVars, now, cycleVars, daemonVars, cleanup,
                   serviceVars>>

\* fetchWithNativeHttps for the URL whose loop ran out; then the next URL,
\* or return ''.
NativeAttempt ==
    /\ fetch.fpc = "native"
    /\ \E nativeResult \in NativeResults :
         LET url == fetch.urls[fetch.urlIdx]
             req == [via |-> "native", url |-> url.variant,
                     host |-> hostHeader(url, fetch), len |-> nativeResult]
             out == IF validContent(nativeResult) THEN "ok" ELSE "short"
         IN  fetch' =
               IF out = "ok"
               THEN [fetch EXCEPT !.reqs = Append(@, req), !.fpc = "done",
                                  !.ret = "html"]
               ELSE IF fetch.urlIdx < Len(fetch.urls)
               THEN [fetch EXCEPT !.reqs = Append(@, req),
                                  !.urlIdx = @ + 1, !.attempt = 0,
                                  !.fpc = loopOrNative(0, fetch.maxRetries)]
               ELSE [fetch EXCEPT !.reqs = Append(@, req), !.fpc = "done",
                                  !.ret = "empty"]
    /\ UNCHANGED <<told, storeVars, envVars, now, cycleVars, daemonVars, cleanup,
                   serviceVars>>


\* ------------------------------------------- extractNewsItems, step by step
\* One pass of the selector loop: $(selector), and if it matched, an item
\* pushed for every element that gives one, and the break.
QuerySelector ==
    /\ extract.epc = "select"
    /\ \E elements \in ExtractPages :
         LET to == afterSelector(elements, extract.selector)
         IN  extract' =
               [extract EXCEPT
                  !.queried = Append(@, [selector |-> extract.selector,
                                         elements |-> elements]),
                  !.newsItems = IF Len(elements) > 0
                                THEN extractLoop(elements, now, @)
                                ELSE @,
                  !.selector = IF to = "select" THEN @ + 1 ELSE @,
                  !.epc = to]
    /\ UNCHANGED <<told, storeVars, envVars, now, cycleVars, daemonVars, fetch,
                   cleanup, resolver, mail, lastCommand>>

\* Remove duplicates based on ID, and return the Map's values.
RemoveDuplicates ==
    /\ extract.epc = "dedupe"
    /\ extract' = [extract EXCEPT !.ret = uniqueItems(extract.newsItems, <<>>),
                                  !.epc = "done"]
    /\ UNCHANGED <<told, storeVars, envVars, now, cycleVars, daemonVars, fetch,
                   cleanup, resolver, mail, lastCommand>>

\* ------------------------------------------------------------ DNS and cache
\* dnsCacheTtl = 300000 ms; the model's clock counts minutes.
dnsCacheTtl == 5

Hostname == "www.hpa.gov.tw"
Hostnames == { Hostname }
Addresses == { "210.241.78.32", "210.241.78.33" }

NoEntry == [ip |-> "none", timestamp |-> 0]

\* cached && Date.now() - cached.timestamp < this.dnsCacheTtl
cacheFreshInclusive(clock, timestamp) == clock - timestamp <= dnsCacheTtl

cacheFresh(clock, timestamp) == clock - timestamp < dnsCacheTtl

\* getCachedDnsResult: the address of a fresh entry; an expired entry is
\* deleted and null returned.
getCachedDnsResult(cache, hostname, clock) ==
    LET cached == cache[hostname]
    IN  IF cached.ip # "none" /\ cacheFresh(clock, cached.timestamp)
        THEN [ret |-> cached.ip, cache |-> cache]
        ELSE IF cached.ip # "none"
        THEN [ret |-> "null", cache |-> [cache EXCEPT ![hostname] = NoEntry]]
        ELSE [ret |-> "null", cache |-> cache]

\* cacheDnsResult: this.dnsCache.set(hostname, { ip, timestamp: Date.now() })
cacheDnsResult(cache, hostname, ip, clock) ==
    [cache EXCEPT ![hostname] = [ip |-> ip, timestamp |-> clock]]

\* Promise.race of dnsLookup(hostname) and the 10 s timer: an address, a
\* result without address, an error, or the timeout.
LookupOutcomes == Addresses \cup { "noaddress", "error", "timeout" }

\* The one resolution testDnsResolution makes: dns.lookup, the resolver of
\* the host's operating system.
strategiesTried == << "default" >>

NoLookup ==
    [at |-> 0, found |-> NoEntry, served |-> "none", afterCheck |-> NoEntry,
     strategies |-> <<>>, outcome |-> "none", storedAt |-> 0, ret |-> "none"]

NoResolver ==
    [phase |-> "idle", clock |-> 0, cache |-> [h \in Hostnames |-> NoEntry],
     last |-> NoLookup]

\* Time passes.
DnsTick ==
    /\ resolver.clock < MaxDnsTime
    /\ resolver' = [resolver EXCEPT !.clock = @ + 1]
    /\ UNCHANGED <<told, storeVars, envVars, now, cycleVars, daemonVars, fetch,
                   cleanup, extract, mail, lastCommand>>

\* testDnsResolution up to its await: the cache is asked; a cached address
\* ends the call with true.
CheckDnsCache ==
    /\ resolver.phase = "idle"
    /\ LET r == getCachedDnsResult(resolver.cache, Hostname, resolver.clock)
           hit == r.ret # "null"
       IN  resolver' =
             [resolver EXCEPT
                !.cache = r.cache,
                !.phase = IF hit THEN "idle" ELSE "lookup",
                !.last = [NoLookup EXCEPT
                            !.at = resolver.clock,
                            !.found = resolver.cache[Hostname],
                            !.served = IF hit THEN r.ret ELSE "none",
                            !.afterCheck = r.cache[Hostname],
                            !.ret = IF hit THEN "true" ELSE "none"]]
    /\ UNCHANGED <<told, storeVars, envVars, now, cycleVars, daemonVars, fetch,
                   cleanup, extract, mail, lastCommand>>

\* The race settles: an address is cached and the call returns true (the
\* TCP test only logs); anything else returns false.
DnsLookupSettles ==
    /\ resolver.phase = "lookup"
    /\ \E outcome \in LookupOutcomes :
         resolver' =
           [resolver EXCEPT
              !.phase = "idle",
              !.cache = IF outcome \in Addresses
                        THEN cacheDnsResult(@, Hostname, outcome,
                                            resolver.clock)
                        ELSE @,
              !.last = [@ EXCEPT
                          !.strategies = strategiesTried,
                          !.outcome = outcome,
                          !.storedAt = resolver.clock,
                          !.ret = IF outcome \in Addresses
                                  THEN "true" ELSE "false"]]
    /\ UNCHANGED <<told, storeVars, envVars, now, cycleVars, daemonVars, fetch,
                   cleanup, extract, mail, lastCommand>>

\* --------------------------------------------------------- sendNotification
\* config.toEmails
toEmails(n) == [i \in 1 .. n |-> "to" \o ToString(i)]

\* recipients = [deploymentNotification.devEmail], or config.toEmails
recipientList(to, emails) == IF to = "dev" THEN << "dev" >> ELSE emails

\* The result: success if every recipient was reached (also when there is
\* none), success with the failures listed if some were, else failure.
sendResultAllOrNothing(successfulSends, n) == successfulSends = n

sendResult(successfulSends, n) ==
    IF successfulSends = n THEN TRUE
    ELSE IF successfulSends > 0 THEN TRUE
    ELSE FALSE

successfulSends(sends) ==
    Cardinality({ i \in 1 .. Len(sends) : sends[i].ok })

NoMail ==
    [mpc |-> "idle", config |-> [enabled |-> TRUE,
                                 deploymentNotification |-> FALSE],
     isDev |-> FALSE, toEmails |-> <<>>, recipients |-> <<>>, sends |-> <<>>,
     threw |-> FALSE, success |-> FALSE]

MailCalls ==
    { [NoMail EXCEPT !.config = c, !.isDev = d, !.toEmails = toEmails(n)] :
        c \in NotificationConfigs, d \in BOOLEAN, n \in 0 .. MaxRecipients }

\* sendNotification up to the loop: the disabled channel returns failure;
\* building the content can throw, which the outer catch turns into failure.
SendBegin ==
    /\ mail.mpc = "idle"
    /\ IF ~mail.config.enabled
       THEN mail' = [mail EXCEPT !.mpc = "done", !.success = FALSE]
       ELSE \E throws \in BOOLEAN :
              mail' =
                IF throws
                THEN [mail EXCEPT !.mpc = "done", !.threw = TRUE,
                                  !.success = FALSE]
                ELSE [mail EXCEPT
                        !.mpc = "loop",
                        !.recipients =
                           recipientList(recipients(mail.isDev, mail.config),
                                         mail.toEmails)]
    /\ UNCHANGED <<told, storeVars, envVars, now, cycleVars, daemonVars, fetch,
                   cleanup, extract, resolver, lastCommand>>

\* One pass of the loop: transporter.sendMail to the next recipient, counted
\* if it succeeds and noted in failedSends if it throws.
SendMail ==
    /\ mail.mpc = "loop"
    /\ Len(mail.sends) < Len(mail.recipients)
    /\ \E ok \in BOOLEAN :
         mail' = [mail EXCEPT
                    !.sends = Append(@, [to |-> mail.recipients[Len(@) + 1],
                                         ok |-> ok])]
    /\ UNCHANGED <<told, storeVars, envVars, now, cycleVars, daemonVars, fetch,
                   cleanup, extract, resolver, lastCommand>>

\* After the loop: the NotificationResult.
SendReturn ==
    /\ mail.mpc = "loop"
    /\ Len(mail.sends) = Len(mail.recipients)
    /\ mail' = [mail EXCEPT
                  !.mpc = "done",
                  !.success = sendResult(successfulSends(mail.sends),
                                         Len(mail.recipients))]
    /\ UNCHANGED <<told, storeVars, envVars, now, cycleVars, daemonVars, fetch,
                   cleanup, extract, resolver, lastCommand>>

\* ------------------------------------------------- the `test` and `stats` commands
\* What a call of findAll leaves of the cache file: existsSync and
\* readFileSync only read, and the catch block only logs.
findAllLeavesNoDamagedFile(live) ==
    IF live.kind \in { "partial", "corrupt" } THEN Absent ELSE live

findAllLeaves(live) == live

\* EmailNotificationService.testConnection: false when email is disabled,
\* else what transporter.verify() gives.
mailTestResults(config) == IF ~config.enabled THEN { FALSE } ELSE BOOLEAN

\* `test`: TestConnectionUseCase.execute, crawlerService.testConnection()
\* and notificationService.testConnection(), each in its own try.
TestConnections ==
    /\ \A c \in Cycles : Idle(c)
    /\ \E crawler \in BOOLEAN, notif \in mailTestResults(notification) :
         lastCommand' = [NoCommand EXCEPT !.name = "test", !.crawler = crawler,
                                     !.notification = notif]
    /\ cleanup' = NoCleanup
    /\ UNCHANGED <<told, storeVars, envVars, now, cycleVars, daemonVars, fetch,
                   extract, resolver, mail>>

\* `stats`: getStats() reads the cache through findAll; the CLI prints the
\* dates only if they are Dates (toISOString of a string throws, which the
\* command catches).
ShowCacheStats ==
    /\ \A c \in Cycles : Idle(c)
    /\ LET cache == findAll(cacheFile)
       IN  lastCommand' =
             [NoCommand EXCEPT
                !.name = "stats",
                !.totalItems = Len(cache),
                !.shown = \A i \in 1 .. Len(cache) :
                             cache[i].crawledAt.kind = "Date"]
    /\ cacheFile' = findAllLeaves(cacheFile)
    /\ cleanup' = NoCleanup
    /\ UNCHANGED <<told, tempFile, markerFile, envVars, now, cycleVars, daemonVars,
                   fetch, extract, resolver, mail>>

\* No call of the extractor, the resolver or the mailer is under way.
ServicesIdle ==
    /\ extract = NoExtract
    /\ resolver = NoResolver
    /\ mail = NoMail
    /\ lastCommand = NoCommand

\* --------------------------------------------------- Spec: the CLI, in turn
\* `crawl`: NewsMonitorCLI.runCrawler calls monitorNews once.
RunCrawler ==
    /\ \A c \in Cycles : Idle(c)
    /\ BeginCycle(1)
    /\ cleanup' = NoCleanup
    /\ lastCommand' = NoCommand
    /\ UNCHANGED <<told, daemonVars, fetch, extract, resolver, mail, storeVars,
                   envVars, now, frLog>>

NoCycles ==
    /\ pc = [c \in Cycles |-> "idle"]
    /\ isFirstRun = [c \in Cycles |-> FALSE]
    /\ result = [c \in Cycles |-> NoResult]
    /\ inSync = 0
    /\ g = [c \in Cycles |-> NoHistory]
    /\ frLog = <<>>
    /\ told = NoTold

\* The README's example configuration: email enabled, no
\* deployment_notification section.
DocumentedNotification == [enabled |-> TRUE, deploymentNotification |-> FALSE]

WiredRepository ==
    \/ repoVariant = "marker" /\ envFirstRun = "unset"
    \/ repoVariant = "env" /\ envFirstRun \in EnvValues

Init ==
    /\ cacheFile \in { Absent, Corrupt }
    /\ tempFile = Absent
    /\ markerFile = FALSE
    /\ WiredRepository
    /\ notification \in NotificationConfigs
    /\ now = 0
    /\ NoCycles
    /\ DaemonNotStarted
    /\ schedule = NoSchedule
    /\ fetch = NoFetch
    /\ cleanup = NoCleanup
    /\ ServicesIdle

Next ==
    \/ RunCrawler
    \/ FirstRunCheck(1)
    \/ FirstRunWrite(1)
    \/ Crawl(1, Pages)
    \/ FindNew(1)
    \/ SaveWrite(1)
    \/ SaveRename(1)
    \/ SaveCatch(1)
    \/ Decide(1)
    \/ Notify(1)
    \/ Return(1)
    \/ ResetFirstRunState
    \/ CleanupOldEntries
    \/ TestConnections
    \/ ShowCacheStats
    \/ AdvanceClock

Spec == Init /\ [][Next]_vars

\* SpecRuns: the same commands under the README's configuration, with the
\* history of what the cycles announced.
InitRuns ==
    /\ cacheFile = Absent
    /\ tempFile = Absent
    /\ markerFile = FALSE
    /\ WiredRepository
    /\ notification = DocumentedNotification
    /\ now = 0
    /\ pc = [c \in Cycles |-> "idle"]
    /\ isFirstRun = [c \in Cycles |-> FALSE]
    /\ result = [c \in Cycles |-> NoResult]
    /\ inSync = 0
    /\ g = [c \in Cycles |-> NoHistory]
    /\ frLog = <<>>
    /\ told = Watching
    /\ DaemonNotStarted
    /\ schedule = NoSchedule
    /\ fetch = NoFetch
    /\ cleanup = NoCleanup
    /\ ServicesIdle

SpecRuns == InitRuns /\ [][Next]_vars

\* ------------------------------------------------- SpecDaemon: one daemon
Schedules == [enabled : BOOLEAN, rules : BOOLEAN, startImmediately : BOOLEAN]

\* NewsMonitorDaemon.isRunning: the PID file names a live process.  A PID file
\* naming a dead process is removed.
isRunning(pid) == pid \in { "self", "other" }

\* startScheduler arms the timer if the schedule is enabled and the
\* configuration holds a valid rule.
armsTimer(sched) == sched.enabled /\ sched.rules

\* A cycle the daemon begins after the `stop` command is noted.
noteCycleStart(command) == IF command = "done" THEN "cycleAfter" ELSE command

\* NewsMonitorDaemon.status: running iff isRunning().
status(pid) == isRunning(pid)

LowestIdle == CHOOSE c \in Cycles : Idle(c) /\ \A d \in 1 .. c - 1 : ~Idle(d)

\* The pages the site serves while the daemon runs.
DaemonPages ==
    { <<>>, << [title |-> "Alpha", link |-> "/a", date |-> "none"] >> }

\* start(): refused if a daemon is running; else the PID file, the health
\* server, and the startup crawl, which start() awaits.
Start ==
    /\ dpc = "new" /\ inSync = 0
    /\ IF isRunning(pidFile)
       THEN /\ dpc' = "refused"
            /\ UNCHANGED <<pidFile, healthServer, pc, isFirstRun, result, g,
                           inSync>>
       ELSE /\ dpc' = "startup"
            /\ pidFile' = "self"
            /\ healthServer' = TRUE
            /\ BeginCycle(1)
    /\ UNCHANGED <<told, storeVars, envVars, now, frLog, schedulerInterval,
                   stopped, stopCommand, schedule, fetch, cleanup,
                   serviceVars>>

\* start() after the startup crawl: startScheduler, which runs a crawl at
\* once without awaiting it if startImmediately is set, and arms setInterval.
StartScheduler ==
    /\ dpc = "startup" /\ Idle(1) /\ inSync = 0
    /\ dpc' = "running"
    /\ schedulerInterval' = armsTimer(schedule)
    /\ IF armsTimer(schedule) /\ schedule.startImmediately
       THEN BeginCycle(1) /\ stopCommand' = noteCycleStart(stopCommand)
       ELSE UNCHANGED <<pc, isFirstRun, result, g, inSync, stopCommand>>
    /\ UNCHANGED <<told, storeVars, envVars, now, frLog, pidFile,
                   healthServer, stopped, schedule, fetch, cleanup,
                   serviceVars>>

\* The timer fires: async () => { await this.runCrawlerCheck() }.
Tick ==
    /\ schedulerInterval /\ inSync = 0
    /\ \E c \in Cycles : Idle(c)
    /\ BeginCycle(LowestIdle)
    /\ stopCommand' = noteCycleStart(stopCommand)
    /\ UNCHANGED <<told, storeVars, envVars, now, frLog, dpc, schedulerInterval,
                   pidFile, healthServer, stopped, schedule, fetch, cleanup,
                   serviceVars>>

\* stop(), from the SIGTERM/SIGINT handler: clearInterval, close the health
\* server, remove the PID file.  A handler runs only while the process
\* awaits: main runs from the constructor to the first await of start()
\* without a break, and a refused start() ends the process.
Stop ==
    /\ dpc \in { "startup", "running" }
    /\ ~stopped /\ inSync = 0
    /\ stopped' = TRUE
    /\ schedulerInterval' = FALSE
    /\ healthServer' = FALSE
    /\ pidFile' = "absent"
    /\ UNCHANGED <<told, storeVars, envVars, now, cycleVars, dpc, stopCommand,
                   schedule, fetch, cleanup,
                   serviceVars>>

\* The `stop` command, run in a process of its own on a started daemon: main
\* goes on only if isRunning(); stop() of that process' own NewsMonitorDaemon
\* finds no timer and no health server of its own and removes the PID file.
\* Nothing reaches the daemon process.
StopCommand ==
    /\ dpc \in { "startup", "running" } /\ inSync = 0
    /\ stopCommand = "none"
    /\ isRunning(pidFile)
    /\ pidFile' = "absent"
    /\ stopCommand' = "done"
    /\ UNCHANGED <<told, storeVars, envVars, now, cycleVars, dpc, schedulerInterval,
                   healthServer, stopped, schedule, fetch, cleanup,
                   serviceVars>>

InitDaemon ==
    /\ cacheFile = Absent
    /\ tempFile = Absent
    /\ markerFile = FALSE
    /\ WiredRepository
    /\ notification = DocumentedNotification
    /\ now = 0
    /\ NoCycles
    /\ dpc = "new"
    /\ schedulerInterval = FALSE
    /\ pidFile \in { "absent", "other", "stale" }
    /\ healthServer = FALSE
    /\ stopped = FALSE
    /\ stopCommand = "none"
    /\ schedule \in Schedules
    /\ fetch = NoFetch
    /\ cleanup = NoCleanup
    /\ ServicesIdle

NextDaemon ==
    \/ Start
    \/ StartScheduler
    \/ Tick
    \/ Stop
    \/ StopCommand
    \/ \E c \in Cycles :
         \/ FirstRunCheck(c)
         \/ FirstRunWrite(c)
         \/ Crawl(c, DaemonPages)
         \/ FindNew(c)
         \/ SaveWrite(c)
         \/ SaveRename(c)
         \/ SaveCatch(c)
         \/ Decide(c)
         \/ Notify(c)
         \/ Return(c)

SpecDaemon == InitDaemon /\ [][NextDaemon]_vars

\* --------------------------------------- SpecFetch: one fetchPageContent call
InitFetch ==
    /\ cacheFile = Absent
    /\ tempFile = Absent
    /\ markerFile = FALSE
    /\ repoVariant = "env" /\ envFirstRun = "unset"
    /\ notification = DocumentedNotification
    /\ now = 0
    /\ NoCycles
    /\ DaemonNotStarted
    /\ schedule = NoSchedule
    /\ fetch \in FetchConfigs
    /\ cleanup = NoCleanup
    /\ ServicesIdle

NextFetch ==
    \/ FetchBegin
    \/ AxiosAttempt
    \/ NativeAttempt

SpecFetch == InitFetch /\ [][NextFetch]_vars

\* SpecFetchLive: the same call, where every request that is made returns
\* (with a response, an error or its timeout) and every sleep ends.
SpecFetchLive == InitFetch /\ [][NextFetch]_vars /\ WF_vars(NextFetch)

\* ------------------------------------ the services, each one on its own
\* Everything but the service under study is at rest.
AtRest ==
    /\ cacheFile = Absent
    /\ tempFile = Absent
    /\ markerFile = FALSE
    /\ repoVariant = "env" /\ envFirstRun = "unset"
    /\ notification = DocumentedNotification
    /\ now = 0
    /\ NoCycles
    /\ DaemonNotStarted
    /\ schedule = NoSchedule
    /\ fetch = NoFetch
    /\ cleanup = NoCleanup

\* SpecExtract: one call of extractNewsItems, on any page.
InitExtract == AtRest /\ ServicesIdle

NextExtract ==
    \/ QuerySelector
    \/ RemoveDuplicates

SpecExtract == InitExtract /\ [][NextExtract]_vars

\* SpecDns: the calls of testDnsResolution of one crawler, over time.
InitDns == AtRest /\ ServicesIdle

NextDns ==
    \/ DnsTick
    \/ CheckDnsCache
    \/ DnsLookupSettles

SpecDns == InitDns /\ [][NextDns]_vars

\* SpecMail: one call of sendNotification, delivery by delivery.
InitMail ==
    /\ AtRest
    /\ extract = NoExtract
    /\ resolver = NoResolver
    /\ mail \in MailCalls
    /\ lastCommand = NoCommand

NextMail ==
    \/ SendBegin
    \/ SendMail
    \/ SendReturn

SpecMail == InitMail /\ [][NextMail]_vars

\* ------------------------------------------------------------------ claims
Called(c, op) == \E i \in 1 .. Len(g[c].ops) : g[c].ops[i] = op

KeysOf(file) ==
    IF file.kind = "json"
    THEN { file.data[i].id : i \in 1 .. Len(file.data) }
    ELSE {}

\* C1: findNewItems(B) over the persisted snapshot A returns exactly the
\* items of B whose id is not a key of A, in B's order, and leaves the
\* snapshot file as it was.
C1_FindNewIsDifference ==
    \A c \in Cycles :
        Called(c, "findNewItems") =>
            /\ result[c].newItems =
                 SelectSeq(result[c].items,
                           LAMBDA it : it.id \notin KeysOf(g[c].liveAtFind))
            /\ g[c].ops = << "findNewItems" >> => cacheFile = g[c].liveAtFind

\* C1 witness: two candidates, one already in the snapshot, one new.
C1_Witness ==
    \E c \in Cycles :
        /\ g[c].ops = << "findNewItems" >>
        /\ Len(result[c].items) = 2
        /\ Len(result[c].newItems) = 1
        /\ result[c].newItems[1] = result[c].items[2]

\* C2: after a save that failed (it returned false or threw), findAll gives
\* the snapshot that was persisted when the save started.
C2_FailedSaveKeepsSnapshot ==
    \A c \in Cycles :
        g[c].saveRet \in { "false", "threw" } =>
            findAll(cacheFile) = findAll(g[c].liveAtSave)

\* C2 witness: a failed save of a different item set over a non-empty
\* snapshot.
C2_Witness ==
    \E c \in Cycles :
        /\ g[c].saveRet = "false"
        /\ g[c].liveAtSave.kind = "json"
        /\ g[c].liveAtSave.data # BuildData(result[c].items, <<>>)

\* C3 (as claimed): while a save runs and after it, the live file is the
\* complete previous or the complete new item set, and after a save that hit
\* a write error the temporary file does not exist.
C3_AtomicAndTempRemoved ==
    \A c \in Cycles :
        (pc[c] \in { "save_rename", "save_catch" } \/ g[c].saveRet # "none") =>
            /\ cacheFile \in { g[c].liveAtSave,
                               JsonFile(BuildData(result[c].items, <<>>)) }
            /\ cacheFile.kind # "partial"
            /\ g[c].saveRet \in { "false", "threw" } => ~Exists(tempFile)

\* C4 (as claimed): with the marker absent at first and never removed from
\* outside, the first call of isFirstRunAfterDeployment returns true and
\* creates the marker, and every later call returns false.
C4_FirstRunExactlyOnce ==
    Len(frLog) >= 1 =>
        /\ frLog[1] = TRUE
        /\ markerFile
        /\ \A i \in 2 .. Len(frLog) : frLog[i] = FALSE

\* C8: a cycle whose fetch failed returns the failed result and has neither
\* loaded, diffed nor written the snapshot, which is as it was when the cycle
\* began, and has requested no notification.
C8_FailedFetchTouchesNothing ==
    \A c \in Cycles :
        (g[c].fetched # "none" /\ ~result[c].success) =>
            /\ pc[c] = "done"
            /\ result[c].items = <<>> /\ result[c].newItems = <<>>
            /\ Len(result[c].errors) = 1
            /\ g[c].ops = <<>>
            /\ g[c].notif = "none"
            /\ cacheFile = g[c].liveAtStart

\* C8 witness: a failed fetch over a snapshot that holds items.
C8_Witness ==
    \E c \in Cycles :
        /\ pc[c] = "done" /\ g[c].fetched = "empty" /\ ~result[c].success
        /\ g[c].liveAtStart.kind = "json" /\ Len(g[c].liveAtStart.data) > 0

\* C9 (as claimed): no exception leaves monitorNews.
C9_NeverThrows == \A c \in Cycles : pc[c] # "threw"

\* C10 (as claimed): every cycle whose fetch succeeded calls save, whatever
\* the candidate list.
C10_AlwaysPersists ==
    \A c \in Cycles :
        (pc[c] = "done" /\ result[c].success) => Called(c, "save")

\* C10 (amended): a cycle whose fetch succeeded calls save exactly when the
\* candidate list is not empty, whether or not a candidate is new; a save
\* that returned true left exactly the candidates in the snapshot, and
\* without a save the snapshot is as it was.
C10_PersistsNonEmptyCandidates ==
    \A c \in Cycles :
        (pc[c] \in { "decide", "notify", "done" } /\ result[c].success) =>
            /\ Called(c, "save") <=> Len(result[c].items) > 0
            /\ g[c].saveRet = "true" =>
                 cacheFile = JsonFile(BuildData(result[c].items, <<>>))
            /\ ~Called(c, "save") => cacheFile = g[c].liveAtStart

\* C10 witness: a successful cycle with candidates, none of them new, saved.
C10_Witness ==
    \E c \in Cycles :
        /\ pc[c] = "done" /\ result[c].success
        /\ Len(result[c].items) > 0 /\ result[c].newItems = <<>>
        /\ g[c].saveRet = "true"

PageRequests(via) ==
    Cardinality({ i \in 1 .. Len(fetch.reqs) : fetch.reqs[i].via = via })

\* C7 (as claimed): a fetch whose every attempt failed has made exactly
\* maxRetries HTTP requests for the page.
C7_ExactlyMaxRetriesRequests ==
    (fetch.fpc = "done" /\ fetch.ret = "empty") =>
        Len(fetch.reqs) = fetch.maxRetries

\* C7 (amended): a fetch whose every attempt failed has made, for each URL it
\* tried, exactly maxRetries requests through the HTTP client and then one
\* native HTTPS request; it tried the target URL alone, or the target URL and
\* the IP variant when resolution failed and the DNS fallback is enabled.
C7_RequestsPerUrlVariant ==
    (fetch.fpc = "done" /\ fetch.ret = "empty") =>
        /\ Len(fetch.urls) =
             IF ~fetch.dnsSuccess /\ fetch.fallback THEN 2 ELSE 1
        /\ PageRequests("axios") = fetch.maxRetries * Len(fetch.urls)
        /\ PageRequests("native") = Len(fetch.urls)
        /\ Len(fetch.reqs) = (fetch.maxRetries + 1) * Len(fetch.urls)

\* C7 witness: a fetch of two URL variants, two retries each, all failed.
C7_Witness ==
    /\ fetch.fpc = "done" /\ fetch.ret = "empty"
    /\ Len(fetch.urls) = 2 /\ fetch.maxRetries = 2
    /\ fetch.heads > 0

\* C5 (as claimed): of two calls of isFirstRunAfterDeployment in one process
\* that overlap in time, at most one returns true.
C5_OverlappingCallsOneTrue ==
    \A c \in Cycles, d \in Cycles :
        (c # d /\ d \in g[c].frOverlap /\ c \in g[d].frOverlap) =>
            ~(g[c].frRet = "true" /\ g[d].frRet = "true")

InFlight == { c \in Cycles : pc[c] \notin { "idle", "done", "threw" } }

\* C6 (as claimed): at any moment at most one monitorNews cycle of the daemon
\* is in flight.
C6_CyclesNeverOverlap == Cardinality(InFlight) <= 1

\* C11 (as claimed): after a cycle whose fetch succeeded and whose save
\* succeeded, the snapshot holds every candidate of the cycle and every entry
\* that was in the snapshot before the cycle.
C11_SnapshotIsUnion ==
    \A c \in Cycles :
        (pc[c] = "done" /\ result[c].success /\ g[c].saveRet = "true") =>
            /\ \A i \in 1 .. Len(result[c].items) :
                 result[c].items[i].id \in KeysOf(cacheFile)
            /\ KeysOf(g[c].liveAtStart) \subseteq KeysOf(cacheFile)

C13_NotificationFailureKeepsCycle ==
    \A c \in Cycles :
        g[c].notifOk = "failed" =>
            /\ result[c].success
            /\ Len(result[c].errors) = 1
            /\ result[c].errors[1] = "Notification sending failed"
            /\ g[c].saveRet = "true" =>
                 cacheFile = JsonFile(BuildData(result[c].items, <<>>))
            /\ g[c].saveRet = "false" =>
                 findAll(cacheFile) = findAll(g[c].liveAtSave)

\* C13 witness: a cycle that saved its candidates and whose notification
\* failed although email is enabled.
C13_Witness ==
    \E c \in Cycles :
        /\ pc[c] = "done" /\ g[c].notifOk = "failed"
        /\ g[c].saveRet = "true" /\ g[c].recipients = "all"

\* C14 (as claimed): when the save of a cycle fails, the cycle still returns
\* its result, the result's errors hold an entry reporting the failure, and
\* the prior snapshot is intact.
C14_SaveFailureSurfaced ==
    \A c \in Cycles :
        (g[c].saveRet \in { "false", "threw" }
            /\ pc[c] \in { "done", "threw" }) =>
            /\ pc[c] = "done"
            /\ \E i \in 1 .. Len(result[c].errors) :
                 result[c].errors[i] # "Notification sending failed"
            /\ findAll(cacheFile) = findAll(g[c].liveAtSave)

ItemIds(items) == [i \in 1 .. Len(items) |-> items[i].id]

\* C15: a cycle whose fetch and save succeeded and which started from an
\* empty snapshot has newItems equal to its candidates and leaves exactly
\* its candidates in the snapshot; a cycle that starts from the snapshot a
\* cycle with the same candidates left has no new items and requests no
\* notification.
C15_RecrawlIdempotent ==
    \A c \in Cycles :
        /\ (pc[c] = "done" /\ result[c].success
               /\ g[c].saveRet \in { "true", "none" }
               /\ findAll(g[c].liveAtStart) = <<>>) =>
              /\ result[c].newItems = result[c].items
              /\ ItemIds(findAll(cacheFile)) = ItemIds(result[c].items)
        /\ (pc[c] \in { "notify", "done", "threw" } /\ result[c].success
               /\ g[c].liveAtStart.kind = "json"
               /\ ItemIds(g[c].liveAtStart.data) = ItemIds(result[c].items)) =>
              /\ result[c].newItems = <<>>
              /\ g[c].notif = "none"

\* C15 witness: a second cycle, at a later time, over the snapshot that a
\* cycle with the same two candidates left.
C15_Witness ==
    \E c \in Cycles :
        /\ pc[c] = "done" /\ result[c].success
        /\ Len(result[c].items) = 2
        /\ g[c].liveAtStart.kind = "json"
        /\ ItemIds(g[c].liveAtStart.data) = ItemIds(result[c].items)
        /\ g[c].liveAtStart.data[1].crawledAt.t < result[c].items[1].crawledAt.t
        /\ result[c].newItems = <<>> /\ g[c].notif = "none"

\* The entries of a snapshot file that are older than the cutoff, and the
\* others.
OlderThan(file, cutoff) ==
    SelectSeq(findAll(file), LAMBDA item : item.crawledAt.t < cutoff)

NotOlderThan(file, cutoff) ==
    SelectSeq(findAll(file), LAMBDA item : item.crawledAt.t >= cutoff)

\* C16 (as claimed): cleanupOldEntries(maxAgeDays) on a persisted snapshot
\* returns the number of entries crawled before now - maxAgeDays and leaves
\* exactly the other entries in the snapshot.
C16_CleanupRemovesOnlyOld ==
    (cleanup.ran /\ cleanup.saveRet \in { "true", "none" }) =>
        LET cutoff == cleanup.at - cleanup.maxAgeDays
        IN  /\ cleanup.removedCount = Len(OlderThan(cleanup.before, cutoff))
            /\ ItemIds(findAll(cacheFile)) =
                 ItemIds(NotOlderThan(cleanup.before, cutoff))

\* Every item at hand: the candidates of the cycles and the entries of the
\* snapshot now and as the cycles found it.
ItemsAtHand ==
    UNION { { result[c].items[i] : i \in 1 .. Len(result[c].items) } \cup
            { g[c].liveAtFind.data[i] : i \in 1 .. Len(g[c].liveAtFind.data) } :
            c \in Cycles }
      \cup { cacheFile.data[i] : i \in 1 .. Len(cacheFile.data) }

C18_FindAllNeverThrows ==
    /\ cacheFile.kind \in { "absent", "corrupt", "partial" } =>
          findAll(cacheFile) = <<>>
    /\ cacheFile.kind = "json" =>
          /\ Len(findAll(cacheFile)) = Len(cacheFile.data)
          /\ \A i \in 1 .. Len(cacheFile.data) :
               /\ findAll(cacheFile)[i].id = cacheFile.data[i].id
               /\ findAll(cacheFile)[i].title = cacheFile.data[i].title
               /\ findAll(cacheFile)[i].link = cacheFile.data[i].link
    /\ \A c \in Cycles :
          /\ pc[c] = "threw" => g[c].saveRet = "threw"
          /\ (Called(c, "findNewItems") /\ g[c].liveAtFind.kind # "json") =>
                result[c].newItems = result[c].items

\* C18 witness: a cycle over a corrupt snapshot file that went through, with
\* every candidate new, and a later state with a loaded two-entry snapshot.
C18_Witness ==
    \E c \in Cycles :
        /\ pc[c] = "done" /\ g[c].liveAtFind.kind = "corrupt"
        /\ Len(result[c].items) = 2 /\ result[c].newItems = result[c].items
        /\ Len(findAll(cacheFile)) = 2

\* C19 (as claimed): a started daemon whose configuration enables the
\* scheduler, and which has not been stopped, has its interval timer armed.
C19_EnabledSchedulerArmsTimer ==
    (dpc = "running" /\ schedule.enabled /\ ~stopped) => schedulerInterval

\* C20 (as claimed): once the `stop` command has completed, the daemon that
\* was started begins no further cycle and `status` reports not running.
C20_StopCommandStopsService ==
    stopCommand # "none" =>
        /\ stopCommand # "cycleAfter"
        /\ ~status(pidFile)

\* C21: the extractor consults its selectors in the order of the list and
\* stops at the first one that matches anything: every selector consulted
\* before the last matched nothing, the loop ends before the list does only
\* on a match, and the items returned are those of the last selector's
\* elements alone.
C21_FirstMatchingSelectorOnly ==
    LET q == extract.queried
    IN  /\ \A i \in 1 .. Len(q) : q[i].selector = i
        /\ \A i \in 1 .. Len(q) - 1 : q[i].elements = <<>>
        /\ extract.epc = "done" =>
             /\ Len(q) >= 1
             /\ q[Len(q)].elements = <<>> => Len(q) = Len(Selectors)
             /\ extract.ret = extractNewsItems(q[Len(q)].elements, now)

\* The first selector matched nothing, the second matched, items came back.
C21_Witness ==
    /\ extract.epc = "done"
    /\ Len(extract.queried) = 2
    /\ extract.queried[1].elements = <<>>
    /\ Len(extract.queried[2].elements) = 2
    /\ Len(extract.ret) = 2

\* The place of the first item of newsItems with the id.
FirstWithId(newsItems, id) ==
    CHOOSE k \in 1 .. Len(newsItems) :
        /\ newsItems[k].id = id
        /\ \A m \in 1 .. k - 1 : newsItems[m].id # id

\* C22: the list the extractor returns holds no id twice, holds every id of
\* the matched sequence, holds for each id the first item of the sequence
\* with that id, and is in the order of those first items.
C22_UniqueFirstSeen ==
    extract.epc = "done" =>
        LET r == extract.ret
            n == extract.newsItems
        IN  /\ \A i, j \in 1 .. Len(r) : r[i].id = r[j].id => i = j
            /\ \A k \in 1 .. Len(n) : \E i \in 1 .. Len(r) : r[i].id = n[k].id
            /\ \A i \in 1 .. Len(r) :
                 /\ \E k \in 1 .. Len(n) : n[k].id = r[i].id
                 /\ r[i] = n[FirstWithId(n, r[i].id)]
            /\ \A i, j \in 1 .. Len(r) :
                 i < j => FirstWithId(n, r[i].id) < FirstWithId(n, r[j].id)

\* Two elements with one id and different dates, and another id between them.
C22_Witness ==
    /\ extract.epc = "done"
    /\ Len(extract.newsItems) = 3
    /\ extract.newsItems[1].id = extract.newsItems[3].id
    /\ extract.newsItems[1] # extract.newsItems[3]
    /\ extract.newsItems[2].id # extract.newsItems[1].id
    /\ Len(extract.ret) = 2

\* C23: a response of at most 1000 characters never ends the fetch with a
\* page: a request that got one is followed by another request unless it was
\* the last request of all, after which the fetch returns ''; and crawl()
\* reports success exactly when the last request returned more than 1000
\* characters.
C23_ShortContentIsNoSuccess ==
    LET n == Len(fetch.reqs)
    IN  /\ \A i \in 1 .. n - 1 : fetch.reqs[i].len <= ContentThreshold
        /\ fetch.fpc = "done" /\ n > 0 /\ fetch.reqs[n].len <= ContentThreshold
             => /\ fetch.ret = "empty"
                /\ fetch.reqs[n].via = "native"
                /\ fetch.urlIdx = Len(fetch.urls)
        /\ fetch.fpc = "done" =>
             \A anchors \in Pages :
                 crawl(fetch.ret, anchors, now).success
                     <=> (n > 0 /\ fetch.reqs[n].len > ContentThreshold)

\* A response of exactly 1000 characters was retried, and a later request
\* brought the page.
C23_Witness ==
    /\ fetch.fpc = "done"
    /\ fetch.ret = "html"
    /\ Len(fetch.reqs) >= 2
    /\ fetch.reqs[1].len = ContentThreshold
    /\ crawl(fetch.ret, <<>>, now).success

\* C24: after a failed attempt of the retry loop, whatever the failure, the
\* fetcher sleeps 2^attempt seconds if another attempt of the loop follows,
\* and does not sleep if none follows.
C24_BackoffAfterEveryFailedAttempt ==
    [][ fetch.fpc = "axios" /\ fetch' # fetch =>
          IF fetch'.fpc = "axios"
          THEN fetch'.sleeps = Append(fetch.sleeps, Pow2(fetch.attempt))
          ELSE fetch'.sleeps = fetch.sleeps ]_vars

\* C25: when the fetch gave no page (every request failed, or the fetch
\* threw), crawl() returns a result with success false, an error, and no
\* items and no new items.
C25_FailedFetchIsStructuredFailure ==
    fetch.fpc = "done" /\ fetch.ret # "html" =>
        \A anchors \in Pages :
            LET res == crawl(fetch.ret, anchors, now)
            IN  /\ ~res.success
                /\ res.errors # <<>>
                /\ res.items = <<>>
                /\ res.newItems = <<>>

\* Every request of every URL failed.
C25_Witness ==
    /\ fetch.fpc = "done"
    /\ fetch.ret = "empty"
    /\ Len(fetch.urls) = 2
    /\ Len(fetch.reqs) = (fetch.maxRetries + 1) * 2
    /\ ~crawl(fetch.ret, <<>>, now).success

\* C26: when the resolution test failed, the fetch goes on: the configured
\* URL is the first it tries, its first request goes to that URL, and it
\* does not return before it made a request (user agents being configured).
C26_DnsFailureDoesNotAbort ==
    fetch.fpc # "idle" /\ ~fetch.dnsSuccess /\ fetch.userAgents > 0 =>
        /\ fetch.urls # <<>>
        /\ fetch.urls[1] = TargetUrl
        /\ fetch.reqs # <<>> => fetch.reqs[1].url = "target"
        /\ fetch.fpc = "done" => fetch.reqs # <<>>

\* The resolution test failed and the configured URL brought the page.
C26_Witness ==
    /\ fetch.fpc = "done"
    /\ ~fetch.dnsSuccess
    /\ fetch.ret = "html"
    /\ fetch.reqs[Len(fetch.reqs)].url = "target"
    /\ crawl(fetch.ret, <<>>, now).success

\* C27: a resolution tries the strategies in their priority order, public
\* resolvers, then DNS-over-HTTPS, then the host's default resolver: what it
\* tried is a prefix of that order, and it stopped before the end of the
\* order only because the last strategy tried gave an address.
C27_StrategiesInPriorityOrder ==
    resolver.last.outcome # "none" =>
        \E n \in 1 .. 3 :
            /\ resolver.last.strategies
                 = SubSeq(<< "public", "doh", "default" >>, 1, n)
            /\ n < 3 => resolver.last.outcome \in Addresses

\* C28: a lookup serves the cached address only if the entry is less than
\* dnsCacheTtl old; a lookup that finds an older entry serves nothing,
\* deletes it and goes on to resolve; and once a resolution gave an address,
\* the cache holds that address under the hostname, stamped with the time.
C28_CacheNeverStale ==
    LET l == resolver.last
    IN  /\ l.served # "none" =>
             /\ l.served = l.found.ip
             /\ l.at - l.found.timestamp < dnsCacheTtl
        /\ l.found.ip # "none" /\ l.at - l.found.timestamp >= dnsCacheTtl =>
             /\ l.served = "none"
             /\ l.afterCheck = NoEntry
             /\ resolver.phase = "lookup" \/ l.outcome # "none"
        /\ l.outcome \in Addresses =>
             resolver.cache[Hostname]
                 = [ip |-> l.outcome, timestamp |-> l.storedAt]

\* A lookup found an expired entry, and its resolution stored another address.
C28_Witness ==
    /\ resolver.last.found.ip # "none"
    /\ resolver.last.at - resolver.last.found.timestamp >= dnsCacheTtl
    /\ resolver.last.outcome \in Addresses
    /\ resolver.last.outcome # resolver.last.found.ip
    /\ resolver.cache[Hostname].ip = resolver.last.outcome

\* C29: sendNotification goes through the whole recipient list whatever the
\* single deliveries do; it reports success if at least one delivery
\* succeeded; and it reports failure only if the channel is disabled or no
\* delivery succeeded.
C29_PartialDeliveryIsSuccess ==
    mail.mpc = "done" =>
        LET delivered == { i \in 1 .. Len(mail.sends) : mail.sends[i].ok }
        IN  /\ mail.config.enabled /\ ~mail.threw =>
                 /\ Len(mail.sends) = Len(mail.recipients)
                 /\ \A i \in 1 .. Len(mail.sends) :
                      mail.sends[i].to = mail.recipients[i]
            /\ delivered # {} => mail.success
            /\ ~mail.success => ~mail.config.enabled \/ delivered = {}

\* Three recipients: the first delivery failed, the second succeeded, the
\* third failed, and the result is success.
C29_Witness ==
    /\ mail.mpc = "done"
    /\ Len(mail.recipients) = 3
    /\ Len(mail.sends) = 3
    /\ ~mail.sends[1].ok
    /\ mail.sends[2].ok
    /\ ~mail.sends[3].ok
    /\ mail.success

\* C30: a cycle whose fetch brought the page and whose extraction gave no
\* item ends with success, no items, no new items and no error, and without
\* a notification.
C30_EmptyExtractionIsValidCycle ==
    \A c \in Cycles :
        /\ pc[c] \in { "done", "threw" }
        /\ g[c].fetched = "html"
        /\ result[c].items = <<>>
        => /\ pc[c] = "done"
           /\ result[c].success
           /\ result[c].newItems = <<>>
           /\ result[c].errors = <<>>
           /\ g[c].notif = "none"
           /\ g[c].recipients = "none"
           /\ g[c].notifOk = "none"

\* A cycle fetched the page, extracted nothing, and came to its end past the
\* notification test.
C30_Witness ==
    /\ pc[1] = "done"
    /\ g[1].fetched = "html"
    /\ result[1].items = <<>>
    /\ result[1].success
    /\ Called(1, "findNewItems")
    /\ cacheFile.kind = "json"

\* The most requests one call can make: the loop's attempts and the native
\* request, for each URL it tries.
RequestBound == (fetch.maxRetries + 1) * Len(fetch.urls)

\* C31: the fetch never makes more requests than maxRetries + 1 for each URL
\* variant, never tries more than two URL variants, and, every request
\* returning, it comes to its end.
C31_FetchTerminates ==
    /\ [](Len(fetch.urls) <= 2 /\ Len(fetch.reqs) <= RequestBound)
    /\ <>(fetch.fpc = "done")

\* Every request the bound allows was made before the fetch ended.
C31_Witness ==
    /\ fetch.fpc = "done"
    /\ fetch.maxRetries = MaxRetriesBound
    /\ Len(fetch.urls) = 2
    /\ Len(fetch.reqs) = RequestBound
    /\ fetch.sleeps # <<>>

\* C33: a request carries the Host override exactly if it goes to the URL
\* variant that holds the IP literal.
C33_HostHeaderOnlyOnIpLiteral ==
    \A i \in 1 .. Len(fetch.reqs) :
        fetch.reqs[i].host
            <=> (fetch.reqs[i].url = "ip" /\ IpUrl(fetch).literal)

\* C37: after a `cleanup` command that returned a count, the count is the
\* number of entries the snapshot lost by it.
C37_CleanupCountIsWhatIsGone ==
    cleanup.ran /\ cleanup.saveRet # "threw" =>
        cleanup.removedCount
            = Len(findAll(cleanup.before)) - Len(findAll(cacheFile))

\* C34: once stop() has run, no step arms the scheduler's timer or leaves it
\* armed, and no step begins a crawl cycle.
C34_NoTimerNoCycleAfterStop ==
    [][ stopped =>
          /\ ~schedulerInterval'
          /\ \A c \in Cycles : Idle(c) => pc'[c] = "idle" ]_vars

\* C38: a start() that was refused left the PID file to the live process it
\* names and started nothing; and whenever the daemon has its timer armed or
\* a cycle under way, the PID file names it.
C38_OneDaemonPerPidFile ==
    /\ dpc = "refused" =>
         /\ pidFile = "other"
         /\ ~healthServer
         /\ ~schedulerInterval
         /\ \A c \in Cycles : Idle(c)
    /\ schedulerInterval \/ (\E c \in Cycles : ~Idle(c)) => pidFile = "self"

\* C32: a step that is crawl(), sendNotification(), the `test` command or
\* the `stats` command leaves the snapshot file and the first-run marker as
\* they were.
C32_OnlyTheStoreChangesCacheState ==
    [][ (\/ \E c \in Cycles : pc[c] = "crawl" /\ pc'[c] # "crawl"
         \/ \E c \in Cycles : pc[c] = "notify" /\ pc'[c] # "notify"
         \/ /\ lastCommand' # lastCommand
            /\ lastCommand'.name \in { "test", "stats" })
        => cacheFile' = cacheFile /\ markerFile' = markerFile ]_vars

\* The `stats` command has run on a snapshot with entries and a marker.
C32_Witness ==
    /\ lastCommand.name = "stats"
    /\ lastCommand.totalItems > 0
    /\ cacheFile.kind = "json"
    /\ markerFile

C36_NoPostingAnnouncedTwice ==
    \A c \in Cycles :
        pc[c] \in { "notify", "done" } /\ g[c].notif # "none"
            => NewIds(result[c]) \cap told.ids = {}

====
